---- MODULE Spec2Model ----
(***************************************************************************)
(* Model of the TSP solver frontend: the coordinate projection of the two *)
(* renderers (TSPVisualizationSVG.tsx, TSPVisualization.tsx) and the      *)
(* scenes they emit, the route table of SolutionDetails (segment and      *)
(* cumulative distances, original index lookup), the selection state held *)
(* by App, the App handlers by which a solution becomes current (each     *)
(* split at its awaits, the awaits not yet settled being in inFlight),    *)
(* FileUpload's onDrop and TSPService.validateCoordinateFile.             *)
(*                                                                         *)
(* Numbers.  A problem-space coordinate is a fixed-point number, an       *)
(* integer count of Unit-ths (1/2000): half the matching tolerance 0.001, *)
(* so that points closer than, exactly at, and beyond the tolerance all   *)
(* exist.  Pixel values are exact rationals <<n, d>> with d > 0, kept in  *)
(* lowest terms.  Math.sqrt rounds down to the coordinate resolution.     *)
(***************************************************************************)
EXTENDS Integers, Sequences, FiniteSets, TLC

VARIABLES currentSolution, selectedOriginalPoint, selectedRoutePoint,
          dimensions, canvas, svg,
          error, inFlight, dataTheme, darkMode, changed, clickLog,
          isSolving, isUploading, allSolutions, validation, history, dropLog,
          server

vars == <<currentSolution, selectedOriginalPoint, selectedRoutePoint,
          dimensions, canvas, svg,
          error, inFlight, dataTheme, darkMode, changed, clickLog,
          isSolving, isUploading, allSolutions, validation, history, dropLog,
          server>>

\* what App and FileUpload hold besides the solution, its selection and
\* the error; the views do not read it
appState == <<isSolving, isUploading, allSolutions, validation>>

-----------------------------------------------------------------------------
(* Bounds *)

MaxPoints == 3

\* the characters of the one line of a dropped file that is not "1,1"
MaxLen == 4

\* the drops FileUpload handles
MaxDrops == 2

\* the solutions the server stores
MaxIds == 2

\* the requests in flight at once when the user starts another
MaxCalls == 2

-----------------------------------------------------------------------------
(* Arithmetic *)

Abs(a) == IF a < 0 THEN -a ELSE a

RECURSIVE GCD(_, _)
GCD(a, b) == IF b = 0 THEN a ELSE GCD(b, a % b)

Norm(n, d) ==
  LET g == GCD(Abs(n), Abs(d))
      s == IF d < 0 THEN -1 ELSE 1
  IN  IF n = 0 THEN <<0, 1>> ELSE <<s * (n \div g), s * (d \div g)>>

R(i) == <<i, 1>>
RAdd(a, b) ==
  LET g == GCD(a[2], b[2])
  IN  Norm(a[1] * (b[2] \div g) + b[1] * (a[2] \div g), (a[2] \div g) * b[2])
RNeg(a) == <<-a[1], a[2]>>
RSub(a, b) == RAdd(a, RNeg(b))
RMul(a, b) ==
  LET p == Norm(a[1], b[2])
      q == Norm(b[1], a[2])
  IN  Norm(p[1] * q[1], p[2] * q[2])
RDiv(a, b) == RMul(a, Norm(b[2], b[1]))
RLe(a, b) ==
  LET g == GCD(a[2], b[2])
  IN  a[1] * (b[2] \div g) <= b[1] * (a[2] \div g)
RLt(a, b) == ~RLe(b, a)
RMin(a, b) == IF RLe(a, b) THEN a ELSE b
\* truncation toward zero (conversion of a number to an integer attribute)
RTrunc(a) == IF a[1] >= 0 THEN a[1] \div a[2] ELSE -((-a[1]) \div a[2])

MinOf(S) == CHOOSE m \in S : \A e \in S : m <= e
MaxOf(S) == CHOOSE m \in S : \A e \in S : m >= e
Min2(a, b) == IF a <= b THEN a ELSE b

\* Math.sqrt: the integer square root, rounded down
RECURSIVE ISqrtBin(_, _, _)
ISqrtBin(n, lo, hi) ==
  IF lo >= hi THEN lo
  ELSE LET mid == (lo + hi + 1) \div 2
       IN  IF mid * mid <= n THEN ISqrtBin(n, mid, hi)
           ELSE ISqrtBin(n, lo, mid - 1)
Sqrt(n) == ISqrtBin(n, 0, Min2(n, 46340))

-----------------------------------------------------------------------------
(* Data model: types/tsp.ts *)

\* resolution of a coordinate: the number of fixed-point steps in 1.0
Unit == 2 * 1000

Pt(x, y) == [x |-> x, y |-> y]

\* the points solutions are built from: the corners of a 3-4-5 triangle,
\* a point 0.0005 left of the first (inside the matching tolerance) and a
\* point 0.001 above it (exactly at the tolerance)
Point ==
  {Pt(0, 0), Pt(3 * Unit, 0), Pt(3 * Unit, 4 * Unit), Pt(-1, 0), Pt(0, 2)}

SeqsUpTo(S, n) == UNION {[1..k -> S] : k \in 0..n}

\* an optional array field: undefined, or an array
Undefined == [isArray |-> FALSE, items |-> <<>>]
Arr(s) == [isArray |-> TRUE, items |-> s]

\* currentSolution === null
NoSolution == [isNull |-> TRUE]

TSPSolution(points, route) ==
  [isNull |-> FALSE, id |-> 1, pointCount |-> Len(points),
   originalPoints |-> Arr(points), route |-> route]

Reverse(s) == [i \in 1..Len(s) |-> s[Len(s) + 1 - i]]

\* useState<number | null>(null)
Null == -1

\* useState<string | null>(null): the error banner's message
NullError == [isNull |-> TRUE, message |-> ""]
Error(message) == [isNull |-> FALSE, message |-> message]

\* document.documentElement.getAttribute('data-theme') === 'dark'
isDarkMode(theme) == theme = "dark"

\* the table clicks so far, oldest first: the table, the row's index and
\* that table's selection before the click
NoClick == <<>>
Click(table, index, before) == [table |-> table, index |-> index, before |-> before]
\* the log keeps the two latest clicks
Latest2(log) == IF Len(log) > 2 THEN Tail(log) ELSE log


-----------------------------------------------------------------------------
(* Coordinate projection: the part shared by both renderers *)

\* maxX - minX || 1
RangeOr1(lo, hi) == IF hi - lo = 0 THEN Unit ELSE hi - lo

\* bounds, scale and centring offsets for a non-empty array of points.
\* scale is in pixels per coordinate step.
Projection(points, width, height, padding) ==
  LET xCoords == {points[i].x : i \in 1..Len(points)}
      yCoords == {points[i].y : i \in 1..Len(points)}
      minX == MinOf(xCoords)
      maxX == MaxOf(xCoords)
      minY == MinOf(yCoords)
      maxY == MaxOf(yCoords)
      rangeX == RangeOr1(minX, maxX)
      rangeY == RangeOr1(minY, maxY)
      scaleX == RDiv(R(width - 2 * padding), R(rangeX))
      scaleY == RDiv(R(height - 2 * padding), R(rangeY))
      scale == RMin(scaleX, scaleY)
      offsetX == RSub(RDiv(RSub(R(width), RMul(R(rangeX), scale)), R(2)),
                      RMul(R(minX), scale))
      offsetY == RSub(RDiv(RSub(R(height), RMul(R(rangeY), scale)), R(2)),
                      RMul(R(minY), scale))
  IN  [minX |-> minX, maxX |-> maxX, minY |-> minY, maxY |-> maxY,
       scale |-> scale, offsetX |-> offsetX, offsetY |-> offsetY,
       width |-> width, height |-> height]

scalePoint(point, b) ==
  [x |-> RAdd(RMul(R(point.x), b.scale), b.offsetX),
   y |-> RSub(R(b.height), RAdd(RMul(R(point.y), b.scale), b.offsetY))]

-----------------------------------------------------------------------------
(* Number formatting *)

\* Number.prototype.toFixed for a non-negative distance d (in coordinate
\* steps): the nearest multiple of 10^-digits, the larger one on a tie,
\* returned as the count of those multiples.
toFixed(d, digits) ==
  LET step == IF digits = 1 THEN Unit \div 10 ELSE Unit \div 100
  IN  (2 * d + step) \div (2 * step)

\* a table cell or label: the text 'N/A', or a number
NA == [na |-> TRUE, value |-> 0]
Num(v) == [na |-> FALSE, value |-> v]

-----------------------------------------------------------------------------
(* Scenes: what a view emits, back to front *)

\* one shape or draw command: the scene element it belongs to (layer), what
\* is drawn, the index of the point or segment it is drawn for (Null when it
\* is for none), its position, the number it shows, its colour
Shape(layer, kind, index, at, value, colour) ==
  [layer |-> layer, kind |-> kind, index |-> index, at |-> at,
   value |-> value, colour |-> colour]

At(x, y) == [x |-> x, y |-> y]

RECURSIVE Flatten(_)
Flatten(groups) ==
  IF groups = <<>> THEN <<>> ELSE Head(groups) \o Flatten(Tail(groups))

\* the middle of the segment from a to b
Midpoint(a, b) ==
  At(RAdd(a.x, RMul(RSub(b.x, a.x), <<1, 2>>)),
     RAdd(a.y, RMul(RSub(b.y, a.y), <<1, 2>>)))

-----------------------------------------------------------------------------
(* Vector view: TSPVisualizationSVG.tsx *)

svgWidth == 800
svgHeight == 600
svgPadding == 60

svgCalculateDistance(point1, point2) ==
  LET dx == point2.x - point1.x
      dy == point2.y - point1.y
  IN  Sqrt(dx * dx + dy * dy)

\* const distances = route.length > 1 ? route.map(...) : []
distances(route) ==
  IF Len(route) > 1
  THEN [i \in 1..Len(route) |->
          svgCalculateDistance(route[i], route[(i % Len(route)) + 1])]
  ELSE <<>>

EmptyMemo ==
  [scaledPoints |-> <<>>, scaledRoute |-> <<>>, hasBounds |-> FALSE,
   bounds |-> <<>>, routeDistances |-> <<>>]

\* segment lengths measured on the projected route, in whole pixels
useMemoPixelDistances(solution) ==
  IF solution.isNull THEN EmptyMemo
  ELSE
    LET points == IF solution.originalPoints.isArray
                  THEN solution.originalPoints.items ELSE <<>>
        route == IF solution.route.isArray THEN solution.route.items ELSE <<>>
    IN  IF Len(points) = 0 THEN EmptyMemo
        ELSE
          LET b == Projection(points, svgWidth, svgHeight, svgPadding)
          IN  [scaledPoints |-> [i \in 1..Len(points) |-> scalePoint(points[i], b)],
               scaledRoute |-> [i \in 1..Len(route) |-> scalePoint(route[i], b)],
               hasBounds |-> TRUE,
               bounds |-> b,
               routeDistances |->
                 [i \in 1..Len(distances(route)) |->
                    RTrunc(RMul(R(distances(route)[i]), b.scale))]]

\* the value of useMemo(..., [solution])
useMemo(solution) ==
  IF solution.isNull THEN EmptyMemo
  ELSE
    LET points == IF solution.originalPoints.isArray
                  THEN solution.originalPoints.items ELSE <<>>
        route == IF solution.route.isArray THEN solution.route.items ELSE <<>>
    IN  IF Len(points) = 0 THEN EmptyMemo
        ELSE
          LET b == Projection(points, svgWidth, svgHeight, svgPadding)
          IN  [scaledPoints |-> [i \in 1..Len(points) |-> scalePoint(points[i], b)],
               scaledRoute |-> [i \in 1..Len(route) |-> scalePoint(route[i], b)],
               hasBounds |-> TRUE,
               bounds |-> b,
               routeDistances |-> distances(route)]

\* the order and distance labels of the route segments (jsx lines 193-257)
svgSegmentLabels(memo, showRoute) ==
  IF showRoute /\ Len(memo.scaledRoute) > 1
  THEN [i \in 1..Len(memo.scaledRoute) |->
          [order |-> i,
           distance |-> IF memo.routeDistances[i] # 0
                        THEN toFixed(memo.routeDistances[i], 1) ELSE 0]]
  ELSE <<>>

\* the element returned when solution is null (lines 94-103)
svgPlaceholder ==
  <<Shape("placeholder", "text", Null, At(R(0), R(0)), 0, "var(--color-text-secondary)")>>

\* <g key={i}> of route segment i (lines 195-255)
svgSegment(memo, i) ==
  LET n == Len(memo.scaledRoute)
      current == memo.scaledRoute[i]
      next == memo.scaledRoute[(i % n) + 1]
      distance == memo.routeDistances[i]
  IN  <<Shape("route", "line", i - 1, current, 0, "#ef4444"),
        Shape("route", "order", i - 1, Midpoint(current, next), i, "#ef4444"),
        Shape("route", "distance", i - 1, Midpoint(current, next),
              IF distance # 0 THEN toFixed(distance, 1) ELSE 0, "#059669")>>

\* <g key={index}> of point index (lines 260-342); index is 0-based
svgPoint(memo, index, selectedOriginal) ==
  LET point == memo.scaledPoints[index + 1]
      isSelectedOriginal == selectedOriginal = index
  IN  (IF isSelectedOriginal
       THEN <<Shape("highlight", "ring", index, point, 0, "#3b82f6")>> ELSE <<>>)
      \o <<Shape("point", "circle", index, point,
                 IF isSelectedOriginal THEN 8 ELSE 6,
                 IF index = 0 THEN "#22c55e" ELSE "#3b82f6")>>
      \o (IF index = 0
          THEN <<Shape("point", "START", index, point, 0, "#22c55e")>> ELSE <<>>)
      \o <<Shape("point", "coordinates", index, point,
                 IF isSelectedOriginal THEN 10 ELSE 9,
                 IF isSelectedOriginal THEN "#3b82f6" ELSE "#374151")>>
      \o (IF isSelectedOriginal
          THEN <<Shape("highlight", "number", index, point, index + 1, "#ffffff")>>
          ELSE <<>>)

\* the children of <svg>, in document order (lines 132-377)
svgScene(solution, memo, routeShown, selectedOriginal, selectedRoute, dark) ==
  IF solution.isNull THEN svgPlaceholder
  ELSE
    LET width == IF memo.hasBounds THEN memo.bounds.width ELSE svgWidth
        height == IF memo.hasBounds THEN memo.bounds.height ELSE svgHeight
        caption == IF dark THEN "#94a3b8" ELSE "#6b7280"
    IN  <<Shape("grid", "background", Null, At(R(0), R(0)), 0,
                IF dark THEN "#1e293b" ELSE "#ffffff"),
          Shape("grid", "rect", Null, At(R(0), R(0)), 0,
                IF dark THEN "#334155" ELSE "#f3f4f6"),
          Shape("caption", "X Coordinate", Null,
                At(Norm(width, 2), R(height - 10)), 0, caption),
          Shape("caption", "Y Coordinate", Null,
                At(R(15), Norm(height, 2)), 0, caption)>>
        \o (IF routeShown /\ Len(memo.scaledRoute) > 1
            THEN Flatten([i \in 1..Len(memo.scaledRoute) |-> svgSegment(memo, i)])
            ELSE <<>>)
        \o Flatten([i \in 1..Len(memo.scaledPoints) |->
                      svgPoint(memo, i - 1, selectedOriginal)])
        \o (IF routeShown /\ selectedRoute # Null
                /\ selectedRoute + 1 \in 1..Len(memo.scaledRoute)
            THEN <<Shape("highlight", "ring", selectedRoute,
                         memo.scaledRoute[selectedRoute + 1], 0, "#22c55e"),
                   Shape("highlight", "ROUTE #", selectedRoute,
                         memo.scaledRoute[selectedRoute + 1],
                         selectedRoute + 1, "#22c55e")>>
            ELSE <<>>)

-----------------------------------------------------------------------------
(* Raster view: TSPVisualization.tsx *)

initialWidth == 600
initialHeight == 400
canvasPadding == 40
maxWidth == 800
maxHeight == 600
containerPadding == 32
defaultCanvasWidth == 300
defaultCanvasHeight == 150

\* App and the raster view's callers pass showRoute={true}
showRoute == TRUE

\* container.clientWidth values the window can be resized to
ClientWidths == {0, 100, 132, 139, 200, 233, 432, 1000}

\* assignment to canvas.width / canvas.height: the number is truncated to an
\* unsigned long; a value outside the attribute's range selects the default
CanvasSize(v, default) ==
  LET t == RTrunc(v) IN IF t >= 0 THEN t ELSE default

NoCanvas == [mounted |-> FALSE]

\* the render effect, run after every change of solution or dimensions
renderEffect(solution, dims) ==
  IF solution.isNull THEN NoCanvas
  ELSE
    LET width == CanvasSize(dims.width, defaultCanvasWidth)
        height == CanvasSize(dims.height, defaultCanvasHeight)
        points == IF solution.originalPoints.isArray
                  THEN solution.originalPoints.items ELSE <<>>
        route == IF solution.route.isArray THEN solution.route.items ELSE <<>>
    IN  IF Len(points) = 0
        THEN [mounted |-> TRUE, width |-> width, height |-> height,
              hasBounds |-> FALSE, bounds |-> <<>>,
              scaledRoute |-> <<>>, scaledPoints |-> <<>>]
        ELSE
          LET b == Projection(points, width, height, canvasPadding)
          IN  [mounted |-> TRUE, width |-> width, height |-> height,
               hasBounds |-> TRUE, bounds |-> b,
               scaledRoute |-> IF showRoute /\ Len(route) > 1
                               THEN [i \in 1..Len(route) |-> scalePoint(route[i], b)]
                               ELSE <<>>,
               scaledPoints |-> [i \in 1..Len(points) |-> scalePoint(points[i], b)]]

\* the draw commands of route segment i (lines 130-175)
drawSegment(surface, i) ==
  LET n == Len(surface.scaledRoute)
      current == surface.scaledRoute[i]
      next == surface.scaledRoute[(i % n) + 1]
  IN  <<Shape("route", "line", i - 1, current, 0, "#ef4444"),
        Shape("route", "arrow", i - 1, current, 0, "#ef4444"),
        Shape("route", "order", i - 1, Midpoint(current, next), i, "#ef4444")>>

\* the draw commands of point index (lines 179-233); index is 0-based
drawPoint(surface, index) ==
  LET scaled == surface.scaledPoints[index + 1]
  IN  <<Shape("point", "circle", index, scaled, 6,
              IF index = 0 THEN "#22c55e" ELSE "#3b82f6")>>
      \o (IF index = 0
          THEN <<Shape("point", "START", index, scaled, 0, "#22c55e")>> ELSE <<>>)

\* the draw commands one pass of the render effect issues on the surface it
\* has projected onto, in the order it issues them (lines 51-275)
drawSequence(solution, surface, dark) ==
  IF solution.isNull THEN <<>>
  ELSE
    <<Shape("background", "fillRect", Null, At(R(0), R(0)), 0,
            IF dark THEN "#1e293b" ELSE "#ffffff")>>
    \o (IF ~surface.hasBounds THEN <<>>
        ELSE
          Flatten([i \in 1..Len(surface.scaledRoute) |-> drawSegment(surface, i)])
          \o Flatten([i \in 1..Len(surface.scaledPoints) |-> drawPoint(surface, i - 1)])
          \o <<Shape("grid", "lines", Null, At(R(0), R(0)), 0,
                     IF dark THEN "#334155" ELSE "#f3f4f6"),
               Shape("caption", "X Coordinate", Null,
                     At(Norm(surface.width, 2), R(surface.height - 10)), 0,
                     IF dark THEN "#94a3b8" ELSE "#6b7280"),
               Shape("caption", "Y Coordinate", Null,
                     At(R(15), Norm(surface.height, 2)), 0,
                     IF dark THEN "#94a3b8" ELSE "#6b7280")>>)

\* the element returned when solution is null (lines 277-286)
canvasPlaceholder ==
  <<Shape("placeholder", "text", Null, At(R(0), R(0)), 0, "var(--color-text-secondary)")>>

\* what the raster view shows: the placeholder, or the canvas as drawn
canvasView(solution, surface, dark) ==
  IF solution.isNull THEN canvasPlaceholder
  ELSE drawSequence(solution, surface, dark)

\* window 'resize' with the canvas container clientWidth wide
handleResize(clientWidth) ==
  /\ ~currentSolution.isNull
  /\ LET width == Min2(clientWidth - containerPadding, maxWidth)
         height == RMin(RMul(R(width), <<3, 4>>), R(maxHeight))
     IN  dimensions' = [width |-> R(width), height |-> height]
  /\ canvas' = renderEffect(currentSolution, dimensions')
  /\ changed' = {"dimensions"}
  /\ UNCHANGED <<currentSolution, selectedOriginalPoint, selectedRoutePoint, svg>>
  /\ UNCHANGED <<error, inFlight, dataTheme, darkMode, clickLog>>
  /\ UNCHANGED <<appState, history, dropLog, server>>

-----------------------------------------------------------------------------
(* Route table: SolutionDetails *)

tolerance == Unit \div 1000

calculateDistance(point1, point2) ==
  LET dx == point2.x - point1.x
      dy == point2.y - point1.y
  IN  Sqrt(dx * dx + dy * dy)

\* an open path: the segment back to the first point is left out
getRouteDistancesOpen(route) ==
  [i \in 1..Len(route) |->
     IF i < Len(route) THEN calculateDistance(route[i], route[i + 1]) ELSE 0]
getRouteDistances(route) ==
  [i \in 1..Len(route) |-> calculateDistance(route[i], route[(i % Len(route)) + 1])]

\* formatDistance: 'N/A' for a falsy distance, else two decimals
formatDistance(distance) ==
  IF distance = 0 THEN NA ELSE Num(toFixed(distance, 2))

\* || in place of &&
matchesEither(op, point) ==
  Abs(op.x - point.x) < tolerance \/ Abs(op.y - point.y) < tolerance
\* op => Math.abs(op.x - point.x) < 0.001 && Math.abs(op.y - point.y) < 0.001
matches(op, point) ==
  Abs(op.x - point.x) < tolerance /\ Abs(op.y - point.y) < tolerance

\* Array.prototype.findIndex with that predicate: 0-based, -1 when none
findIndex(originalPoints, point) ==
  LET hits == {i \in 1..Len(originalPoints) : matches(originalPoints[i], point)}
  IN  IF hits = {} THEN -1 ELSE MinOf(hits) - 1

\* the 'Original #' cell of a route row
originalIndex(solution, point) ==
  IF solution.originalPoints.isArray
  THEN Num(findIndex(solution.originalPoints.items, point) + 1)
  ELSE NA

\* cumulativeDistance += distance
accumulateAssign(cumulativeDistance, distance) == distance
accumulate(cumulativeDistance, distance) == cumulativeDistance + distance

\* solution.route.map((point, index) => ...) from row index on, with the
\* running cumulativeDistance of the rows before it
RECURSIVE routeRowsFrom(_, _, _, _)
routeRowsFrom(solution, routeDistances, index, cumulativeBefore) ==
  LET route == solution.route.items
  IN  IF index > Len(route) THEN <<>>
      ELSE
        LET point == route[index]
            distance == routeDistances[index]
            cumulativeDistance == accumulate(cumulativeBefore, distance)
        IN  <<[originalIndex |-> originalIndex(solution, point),
               routeOrder |-> index,
               start |-> (index = 1),
               distance |-> distance,
               segmentCell |-> formatDistance(distance),
               returnToStart |-> (index = Len(route)),
               cumulativeDistance |-> cumulativeDistance,
               totalCell |-> formatDistance(cumulativeDistance)]>>
            \o routeRowsFrom(solution, routeDistances, index + 1, cumulativeDistance)

\* if (!solution.id || !solution.status || !solution.pointCount): the panel
\* 'Error: Invalid solution data' is rendered in place of the tables
invalidSolutionData(solution) == solution.pointCount = 0

\* the rows of the 'Optimized Route Details' table; none when the table is
\* not rendered (solution.route && solution.route.length > 0)
routeRows(solution) ==
  IF solution.isNull THEN <<>>
  ELSE IF invalidSolutionData(solution) THEN <<>>
  ELSE IF ~solution.route.isArray \/ Len(solution.route.items) = 0 THEN <<>>
  ELSE routeRowsFrom(solution, getRouteDistances(solution.route.items), 1, 0)

\* the rows of the 'Original Points' table
originalRows(solution) ==
  IF solution.isNull THEN <<>>
  ELSE IF invalidSolutionData(solution) THEN <<>>
  ELSE IF ~solution.originalPoints.isArray THEN <<>>
  ELSE solution.originalPoints.items

-----------------------------------------------------------------------------
(* TSPService.validateCoordinateFile (tspService.ts) *)

\* A string is the sequence of its lines (the text between its '\n's); a
\* line is a sequence of characters.  The empty string has one empty line.
Whitespace == {" "}
Digits == {"1"}
Chars == {"1", "-", ".", ",", " ", "x"}

minLines == 3
maxLines == 1000

IsBlank(s) == \A i \in 1..Len(s) : s[i] \in Whitespace

\* String.prototype.trimStart, trimEnd and trim on one line
RECURSIVE trimStart(_)
trimStart(s) ==
  IF s = <<>> THEN <<>>
  ELSE IF s[1] \in Whitespace THEN trimStart(Tail(s)) ELSE s

RECURSIVE trimEnd(_)
trimEnd(s) ==
  IF s = <<>> THEN <<>>
  ELSE IF s[Len(s)] \in Whitespace THEN trimEnd(SubSeq(s, 1, Len(s) - 1)) ELSE s

trim(s) == trimEnd(trimStart(s))

\* content.trim().split('\n'): the blank lines at either end go with the
\* whitespace; so does the whitespace before the first and after the last
\* remaining character
trimSplitLines(content) ==
  LET inked == {i \in 1..Len(content) : ~IsBlank(content[i])}
  IN  IF inked = {} THEN << <<>> >>
      ELSE
        LET first == MinOf(inked)
            last == MaxOf(inked)
        IN  [i \in 1..(last - first + 1) |->
               LET line == content[first + i - 1]
                   l == IF i = 1 THEN trimStart(line) ELSE line
               IN  IF i = last - first + 1 THEN trimEnd(l) ELSE l]

\* line.split(',')
RECURSIVE split(_)
split(s) ==
  LET commas == {i \in 1..Len(s) : s[i] = ","}
  IN  IF commas = {} THEN <<s>>
      ELSE LET k == MinOf(commas)
           IN  <<SubSeq(s, 1, k - 1)>> \o split(SubSeq(s, k + 1, Len(s)))

\* the longest prefix of s made of digits
RECURSIVE digitsOf(_)
digitsOf(s) ==
  IF s = <<>> THEN <<>>
  ELSE IF s[1] \in Digits THEN <<s[1]>> \o digitsOf(Tail(s)) ELSE <<>>

NaN == [isNaN |-> TRUE, negative |-> FALSE, integer |-> <<>>, fraction |-> <<>>]

\* parseFloat(s): leading whitespace is skipped, then the longest prefix
\* that is a decimal literal (sign, digits, '.', digits) is converted and
\* whatever follows it is ignored; NaN when that prefix has no digit
parseFloat(s) ==
  LET t == trimStart(s)
      negative == t # <<>> /\ t[1] = "-"
      u == IF negative THEN Tail(t) ELSE t
      integer == digitsOf(u)
      rest == SubSeq(u, Len(integer) + 1, Len(u))
      fraction == IF rest # <<>> /\ rest[1] = "."
                  THEN digitsOf(Tail(rest)) ELSE <<>>
  IN  IF integer = <<>> /\ fraction = <<>> THEN NaN
      ELSE [isNaN |-> FALSE, negative |-> negative,
            integer |-> integer, fraction |-> fraction]

isNaN(number) == number.isNaN

\* no file has been validated
Unvalidated == [isValid |-> FALSE, points |-> <<>>, error |-> ""]
Invalid(message) == [isValid |-> FALSE, points |-> <<>>, error |-> message]
Valid(points) == [isValid |-> TRUE, points |-> points, error |-> ""]

\* what the callback of lines.map throws for line index, if it throws
lineError(line, index) ==
  LET parts == split(trim(line))
  IN  IF Len(parts) # 2
      THEN "Line " \o ToString(index) \o ": Expected format \"x,y\""
      ELSE IF isNaN(parseFloat(parts[1])) \/ isNaN(parseFloat(parts[2]))
      THEN "Line " \o ToString(index) \o ": Invalid coordinates"
      ELSE ""

linePoint(line) ==
  LET parts == split(trim(line))
  IN  [x |-> parseFloat(parts[1]), y |-> parseFloat(parts[2])]

\* validateCoordinateFile(content): the first line that throws decides the
\* error; the try block catches whatever is thrown
validateCoordinateFile(content) ==
  LET lines == trimSplitLines(content)
  IN  IF Len(lines) < minLines
      THEN Invalid("File must contain at least 3 points")
      ELSE IF Len(lines) > maxLines
      THEN Invalid("File cannot contain more than 1000 points")
      ELSE
        LET throwing == {i \in 1..Len(lines) : lineError(lines[i], i) # ""}
        IN  IF throwing # {}
            THEN LET index == MinOf(throwing)
                 IN  Invalid(lineError(lines[index], index))
            ELSE Valid([i \in 1..Len(lines) |-> linePoint(lines[i])])

-----------------------------------------------------------------------------
(* Solutions the server can return *)

PointSeqs == SeqsUpTo(Point, MaxPoints)

\* the reorderings of a sequence
Reorderings(s) ==
  {[i \in 1..Len(s) |-> s[f[i]]] : f \in Permutations(1..Len(s))}

\* route: absent, empty, a reordering of originalPoints (the solved case),
\* or a single point that need not be among originalPoints
RoutesFor(points) ==
  {Undefined, Arr(<<>>)}
    \cup {Arr(r) : r \in Reorderings(points)}
    \cup {Arr(<<p>>) : p \in Point}

Solutions ==
  UNION {{TSPSolution(points, route) : route \in RoutesFor(points)} :
           points \in PointSeqs}

\* an unsolved upload and its solved form, for every array of points
UploadedOrSolved ==
  UNION {{TSPSolution(points, Undefined), TSPSolution(points, Arr(Reverse(points)))} :
           points \in PointSeqs}

\* the points of one file; the uploads of its first points and their
\* solved forms
Sample == <<Pt(0, 0), Pt(3 * Unit, 0), Pt(3 * Unit, 4 * Unit), Pt(0, 2), Pt(-1, 0)>>

SampleSolutions ==
  UNION {{TSPSolution(SubSeq(Sample, 1, n), Undefined),
          TSPSolution(SubSeq(Sample, 1, n), Arr(Reverse(SubSeq(Sample, 1, n))))} :
           n \in 0..Min2(MaxPoints, Len(Sample))}

-----------------------------------------------------------------------------
(* App: selection state and the table rows' click handlers *)

\* the row's index is stored whether it was selected or not
clickOriginalRowSet(index) ==
  /\ selectedOriginalPoint' = index - 1
  /\ changed' = {"selectedOriginalPoint"}
  /\ UNCHANGED <<currentSolution, selectedRoutePoint, dimensions, canvas, svg>>
  /\ UNCHANGED <<error, inFlight, dataTheme, darkMode>>
  /\ UNCHANGED <<appState, history, dropLog, server>>
\* onClick of row index of the original points table
\* (onSelectOriginalPoint = setSelectedOriginalPoint)
clickOriginalRow(index) ==
  /\ selectedOriginalPoint' =
       IF selectedOriginalPoint = index - 1 THEN Null ELSE index - 1
  /\ changed' = {"selectedOriginalPoint"}
  /\ UNCHANGED <<currentSolution, selectedRoutePoint, dimensions, canvas, svg>>
  /\ UNCHANGED <<error, inFlight, dataTheme, darkMode>>
  /\ UNCHANGED <<appState, history, dropLog, server>>

\* the row is selected and the route is reversed in place
clickRouteRowReversing(index) ==
  /\ selectedRoutePoint' =
       IF selectedRoutePoint = index - 1 THEN Null ELSE index - 1
  /\ currentSolution' =
       [currentSolution EXCEPT !.route = Arr(Reverse(currentSolution.route.items))]
  /\ changed' = {"selectedRoutePoint"}
  /\ UNCHANGED <<selectedOriginalPoint, dimensions, canvas, svg>>
  /\ UNCHANGED <<error, inFlight, dataTheme, darkMode>>
  /\ UNCHANGED <<appState, history, dropLog, server>>
\* onClick of row index of the route table
\* (onSelectRoutePoint = setSelectedRoutePoint)
clickRouteRow(index) ==
  /\ selectedRoutePoint' =
       IF selectedRoutePoint = index - 1 THEN Null ELSE index - 1
  /\ changed' = {"selectedRoutePoint"}
  /\ UNCHANGED <<currentSolution, selectedOriginalPoint, dimensions, canvas, svg>>
  /\ UNCHANGED <<error, inFlight, dataTheme, darkMode>>
  /\ UNCHANGED <<appState, history, dropLog, server>>

-----------------------------------------------------------------------------
(* App and FileUpload: requests in flight and what they settle to *)

\* the ids the server gives to uploads; NoId stands for no solution
Ids == 1..MaxIds
NoId == 0

\* a dropped file: its name and its content are strings
File(name, size, content) == [name |-> name, size |-> size, content |-> content]
NoFile == File(<<>>, 0, << <<>> >>)

\* an awaited call that has not settled: which await of which handler, the
\* id the handler was called with, the file the drop was made with, and the
\* currentSolution?.id the handler closed over
Call(call, id) == [call |-> call, id |-> id, file |-> NoFile, current |-> NoId]
FileCall(call, file) == [call |-> call, id |-> NoId, file |-> file, current |-> NoId]
ClosureCall(call, id, current) ==
  [call |-> call, id |-> id, file |-> NoFile, current |-> current]

\* what the latest step settled: the await, the id it was made with and
\* whether it was fulfilled (none of it when the step settled no request of
\* handleUploadSuccess); and the ids whose solution handleUploadSuccess has
\* fetched and set
NoHistory == [settled |-> "", id |-> NoId, ok |-> FALSE, fetched |-> {}]

\* what FileUpload has done so far: the drops onDrop has handled, the first
\* file of the latest of them (empty: there was none), the uploadFile
\* requests issued and the calls of each callback
NoDrops ==
  [drops |-> 0, empty |-> TRUE, file |-> NoFile, uploadFile |-> 0,
   onUploadError |-> 0, onUploadSuccess |-> 0]

\* what an awaited TSPService call settles to: a rejection, or the body of
\* the response (which may be empty)
Rejected == [ok |-> FALSE, data |-> NoSolution]
Resolved(solution) == [ok |-> TRUE, data |-> solution]

\* getAllSolutions: a rejection, or the ids of response.solutions
ListRejected == [ok |-> FALSE, solutions |-> {}]
Listed(ids) == [ok |-> TRUE, solutions |-> ids]
ListResponses == {ListRejected} \cup {Listed(ids) : ids \in SUBSET Ids}

\* uploadFile: a rejection, or the id of the UploadResponse
UploadRejected == [ok |-> FALSE, id |-> NoId]
Uploaded(id) == [ok |-> TRUE, id |-> id]
UploadResponses == {UploadRejected} \cup {Uploaded(id) : id \in Ids}

\* a response whose originalPoints field is missing
MissingPoints(count, route) ==
  [isNull |-> FALSE, id |-> 1, pointCount |-> count, originalPoints |-> Undefined,
   route |-> route]

\* a response whose pointCount is not the length of originalPoints
Miscounted(points, route, count) ==
  [isNull |-> FALSE, id |-> 1, pointCount |-> count, originalPoints |-> Arr(points),
   route |-> route]

Sample3 == SubSeq(Sample, 1, Min2(MaxPoints, 3))

\* the bodies the server may answer with: the sample uploads and their
\* solved forms, and three that do not have the shape of a TSPSolution
ServerSolutions ==
  SampleSolutions
    \cup {MissingPoints(2, Undefined),
          Miscounted(Sample3, Arr(Reverse(Sample3)), 1),
          Miscounted(SubSeq(Sample, 1, 1), Undefined, 2)}

Responses == {Rejected, Resolved(NoSolution)} \cup {Resolved(s) : s \in ServerSolutions}

\* the solution stored under id (its first id points of the sample file),
\* as uploaded and as solved
StoredSolution(id) ==
  [TSPSolution(SubSeq(Sample, 1, Min2(id, Len(Sample))), Undefined) EXCEPT !.id = id]
SolvedSolution(id) ==
  [StoredSolution(id) EXCEPT
     !.route = Arr(Reverse(StoredSolution(id).originalPoints.items))]

\* currentSolution?.id
currentId == IF currentSolution.isNull THEN NoId ELSE currentSolution.id

\* the dependency arrays of the vector view's useMemo and of the raster
\* view's render effect
useMemoDeps == {"solution"}
useEffectDeps == {"solution", "showRoute", "dimensions", "darkMode"}

\* setCurrentSolution(solution) and the render that follows: a fetched
\* solution is a new object, null is not
setCurrentSolution(solution) ==
  /\ currentSolution' = solution
  /\ changed' = IF solution.isNull /\ currentSolution.isNull THEN {} ELSE {"solution"}
  /\ svg' = IF changed' \cap useMemoDeps # {} THEN useMemo(solution) ELSE svg
  /\ canvas' = IF changed' \cap useEffectDeps # {}
                THEN renderEffect(solution, dimensions) ELSE canvas

\* setError(message) alone
setError(message) ==
  /\ error' = message
  /\ changed' = IF error = message THEN {} ELSE {"error"}
  /\ UNCHANGED <<currentSolution, svg, canvas>>

\* nothing the views or the error banner show is set
noRender ==
  /\ changed' = {}
  /\ UNCHANGED <<currentSolution, svg, canvas, error>>

\* what neither App nor FileUpload sets, and what App does not
viewProps ==
  <<selectedOriginalPoint, selectedRoutePoint, dimensions, dataTheme, darkMode,
    clickLog>>
viewState == <<viewProps, dropLog>>

\* loadSolutions from its await on: a rejection is caught and logged
loadSolutions(response) ==
  allSolutions' = IF response.ok THEN response.solutions ELSE allSolutions

\* useEffect(() => { loadSolutions() }, []) from the await of loadSolutions on
mountLoadSolutionsSettled(call, response) ==
  /\ call \in inFlight /\ call.call = "mount.loadSolutions"
  /\ loadSolutions(response)
  /\ inFlight' = inFlight \ {call}
  /\ noRender
  /\ UNCHANGED <<isSolving, isUploading, validation, viewState>>

\* handleSelectSolution(id) up to its await
handleSelectSolution(id) ==
  /\ setError(NullError)
  /\ inFlight' = inFlight \cup {Call("select", id)}
  /\ UNCHANGED <<appState, viewState>>

\* handleSelectSolution from its await on
selectSolutionSettled(call, response) ==
  /\ call \in inFlight /\ call.call = "select"
  /\ inFlight' = inFlight \ {call}
  /\ IF ~response.ok THEN setError(Error("Network Error"))
     ELSE IF response.data.isNull
     THEN setError(Error("Solution is null or undefined"))
     ELSE IF ~response.data.originalPoints.isArray
     THEN setError(Error("Invalid solution structure: originalPoints is not an array"))
     ELSE setCurrentSolution(response.data) /\ UNCHANGED error
  /\ UNCHANGED <<appState, viewState>>

\* handleUploadSuccess(result) up to its first await, result.id being id,
\* when the calls in pending stay in flight
handleUploadSuccess(id, pending) ==
  /\ setError(NullError)
  /\ inFlight' = pending \cup {Call("upload", id)}

\* handleUploadSuccess from await getSolution to await loadSolutions
uploadSolutionSettled(call, response) ==
  /\ call \in inFlight /\ call.call = "upload"
  /\ IF ~response.ok
     THEN /\ setError(Error("Network Error"))
          /\ inFlight' = inFlight \ {call}
     ELSE /\ setCurrentSolution(response.data) /\ UNCHANGED error
          /\ inFlight' = (inFlight \ {call}) \cup {Call("upload.loadSolutions", call.id)}
  /\ UNCHANGED <<appState, viewState>>

\* handleSolve(id) up to its await, when the calls in pending stay in flight
handleSolve(id, pending) ==
  /\ isSolving' = TRUE
  /\ setError(NullError)
  /\ inFlight' = pending \cup {Call("solve", id)}

\* handleUploadSuccess from await loadSolutions on: handleSolve(result.id)
uploadLoadSolutionsSettled(call, response) ==
  /\ call \in inFlight /\ call.call = "upload.loadSolutions"
  /\ loadSolutions(response)
  /\ handleSolve(call.id, inFlight \ {call})
  /\ UNCHANGED <<isUploading, validation, viewState>>

\* handleSolve from await solveTSP to await loadSolutions, or through catch
\* and finally
solveSettled(call, response) ==
  /\ call \in inFlight /\ call.call = "solve"
  /\ IF ~response.ok
     THEN /\ setError(Error("Network Error"))
          /\ inFlight' = inFlight \ {call}
          /\ isSolving' = FALSE
     ELSE /\ setCurrentSolution(response.data) /\ UNCHANGED error
          /\ inFlight' = (inFlight \ {call}) \cup {Call("solve.loadSolutions", call.id)}
          /\ UNCHANGED isSolving
  /\ UNCHANGED <<isUploading, allSolutions, validation, viewState>>

\* handleSolve from await loadSolutions on: finally setIsSolving(false)
solveLoadSolutionsSettled(call, response) ==
  /\ call \in inFlight /\ call.call = "solve.loadSolutions"
  /\ loadSolutions(response)
  /\ isSolving' = FALSE
  /\ inFlight' = inFlight \ {call}
  /\ noRender
  /\ UNCHANGED <<isUploading, validation, viewState>>

\* handleDeleteSolution(id) up to its await; the handler is the one of the
\* latest render and holds that render's currentSolution
handleDeleteSolution(id) ==
  /\ inFlight' = inFlight \cup {ClosureCall("delete", id, currentId)}
  /\ noRender
  /\ UNCHANGED <<appState, viewState>>

\* handleDeleteSolution from await deleteSolution to await loadSolutions
deleteSettled(call, ok) ==
  /\ call \in inFlight /\ call.call = "delete"
  /\ IF ~ok
     THEN /\ setError(Error("Network Error"))
          /\ inFlight' = inFlight \ {call}
     ELSE /\ IF call.current = call.id
             THEN setCurrentSolution(NoSolution) /\ UNCHANGED error
             ELSE noRender
          /\ inFlight' = (inFlight \ {call}) \cup {Call("delete.loadSolutions", call.id)}
  /\ UNCHANGED <<appState, viewState>>

\* handleDeleteSolution from await loadSolutions on
deleteLoadSolutionsSettled(call, response) ==
  /\ call \in inFlight /\ call.call = "delete.loadSolutions"
  /\ loadSolutions(response)
  /\ inFlight' = inFlight \ {call}
  /\ noRender
  /\ UNCHANGED <<isSolving, isUploading, validation, viewState>>

\* handleUploadError(errorMsg): setError(errorMsg); setCurrentSolution(null)
handleUploadError(errorMsg) ==
  /\ error' = Error(errorMsg)
  /\ setCurrentSolution(NoSolution)

-----------------------------------------------------------------------------
(* FileUpload: onDrop *)

maxFileSize == 10 * 1024 * 1024

\* file.name.endsWith(suffix)
endsWith(name, suffix) ==
  /\ Len(name) >= Len(suffix)
  /\ SubSeq(name, Len(name) - Len(suffix) + 1, Len(name)) = suffix

txt == <<".", "t", "x", "t">>
csv == <<".", "c", "s", "v">>

\* onDrop(acceptedFiles) up to its first await
onDrop(acceptedFiles) ==
  LET file == acceptedFiles[1]
      errorMsg ==
        IF Len(acceptedFiles) = 0 THEN "No valid file selected"
        ELSE IF ~endsWith(file.name, txt) /\ ~endsWith(file.name, csv)
        THEN "Please upload a .txt or .csv file"
        ELSE IF file.size > maxFileSize
        THEN "File size must be less than 10MB"
        ELSE ""
  IN  /\ IF errorMsg # ""
         THEN /\ handleUploadError(errorMsg)
              /\ UNCHANGED <<isUploading, inFlight>>
         ELSE /\ isUploading' = TRUE
              /\ inFlight' = inFlight \cup {FileCall("file.text", file)}
              /\ noRender
      /\ dropLog' =
           [dropLog EXCEPT
              !.drops = @ + 1,
              !.empty = Len(acceptedFiles) = 0,
              !.file = IF Len(acceptedFiles) = 0 THEN NoFile ELSE file,
              !.onUploadError = IF errorMsg # "" THEN @ + 1 ELSE @]
      /\ UNCHANGED <<isSolving, allSolutions, validation, viewProps>>

\* the drop zone is disabled or not, uploads go ahead
useDropzoneEnabled(acceptedFiles) == onDrop(acceptedFiles)
\* useDropzone({onDrop, disabled: isUploading}): a drop on a disabled drop
\* zone is ignored
useDropzone(acceptedFiles) ==
  /\ ~isUploading
  /\ onDrop(acceptedFiles)

\* the content is uploaded whatever the validation says
textSettledUploading(call, ok) ==
  /\ call \in inFlight /\ call.call = "file.text"
  /\ validation' = validateCoordinateFile(call.file.content)
  /\ inFlight' = (inFlight \ {call}) \cup {FileCall("uploadFile", call.file)}
  /\ noRender
  /\ dropLog' = [dropLog EXCEPT !.uploadFile = @ + 1]
  /\ UNCHANGED <<isUploading, isSolving, allSolutions, viewProps>>
\* onDrop from await file.text() to await uploadFile, or through the early
\* return or catch, and finally
textSettled(call, ok) ==
  /\ call \in inFlight /\ call.call = "file.text"
  /\ IF ~ok
     THEN /\ handleUploadError("Upload failed")
          /\ inFlight' = inFlight \ {call}
          /\ isUploading' = FALSE
          /\ dropLog' = [dropLog EXCEPT !.onUploadError = @ + 1]
          /\ UNCHANGED validation
     ELSE /\ validation' = validateCoordinateFile(call.file.content)
          /\ IF ~validation'.isValid
             THEN /\ handleUploadError(IF validation'.error # ""
                                       THEN validation'.error
                                       ELSE "Invalid file format")
                  /\ inFlight' = inFlight \ {call}
                  /\ isUploading' = FALSE
                  /\ dropLog' = [dropLog EXCEPT !.onUploadError = @ + 1]
             ELSE /\ inFlight' = (inFlight \ {call})
                                   \cup {FileCall("uploadFile", call.file)}
                  /\ noRender
                  /\ dropLog' = [dropLog EXCEPT !.uploadFile = @ + 1]
                  /\ UNCHANGED isUploading
  /\ UNCHANGED <<isSolving, allSolutions, viewProps>>

\* onDrop from await uploadFile on: onUploadSuccess(result), or catch, and
\* finally
uploadFileSettled(call, response) ==
  /\ call \in inFlight /\ call.call = "uploadFile"
  /\ IF ~response.ok
     THEN /\ handleUploadError("Network Error")
          /\ inFlight' = inFlight \ {call}
          /\ dropLog' = [dropLog EXCEPT !.onUploadError = @ + 1]
     ELSE /\ handleUploadSuccess(response.id, inFlight \ {call})
          /\ dropLog' = [dropLog EXCEPT !.onUploadSuccess = @ + 1]
  /\ isUploading' = FALSE
  /\ UNCHANGED <<isSolving, allSolutions, validation, viewProps>>

-----------------------------------------------------------------------------
(* The views under a theme change *)

\* the data-theme attribute of the document element is set to theme: the
\* MutationObserver of each view calls setDarkMode(isDarkMode()), and what
\* depends on darkMode runs again
observeTheme(theme) ==
  /\ dataTheme' = theme
  /\ darkMode' = isDarkMode(theme)
  /\ changed' = IF darkMode' = darkMode THEN {} ELSE {"darkMode"}
  /\ svg' = IF changed' \cap useMemoDeps # {} THEN useMemo(currentSolution) ELSE svg
  /\ canvas' = IF changed' \cap useEffectDeps # {}
                THEN renderEffect(currentSolution, dimensions) ELSE canvas
  /\ UNCHANGED <<currentSolution, selectedOriginalPoint, selectedRoutePoint,
                 dimensions, error, inFlight, clickLog>>
  /\ UNCHANGED <<appState, history, dropLog, server>>

-----------------------------------------------------------------------------
(* Specifications *)

\* App, FileUpload and the views with solution displayed, the awaits of
\* calls not settled, the solutions of list in the history and the
\* solutions of stored on the server
Mounted(solution, calls, list, stored) ==
  /\ currentSolution = solution
  /\ selectedOriginalPoint = Null
  /\ selectedRoutePoint = Null
  /\ dimensions = [width |-> R(initialWidth), height |-> R(initialHeight)]
  /\ canvas = renderEffect(solution, dimensions)
  /\ svg = useMemo(solution)
  /\ error = NullError
  /\ inFlight = calls
  /\ dataTheme = "light"
  /\ darkMode = isDarkMode(dataTheme)
  /\ changed = {"solution"}
  /\ clickLog = NoClick
  /\ isSolving = FALSE
  /\ isUploading = FALSE
  /\ allSolutions = list
  /\ validation = Unvalidated
  /\ history = NoHistory
  /\ dropLog = NoDrops
  /\ server = [id \in Ids |-> IF id \in stored THEN "UPLOADED" ELSE "NONE"]

\* the state right after a solution has been displayed
Displayed(solution) == Mounted(solution, {}, {}, {})

\* geometry: a displayed solution under window resizes
Init == \E solution \in UploadedOrSolved : Displayed(solution)

Resize == \E clientWidth \in ClientWidths : handleResize(clientWidth)

Next == Resize

Spec == Init /\ [][Next]_vars

ClickOriginal ==
  \E index \in 1..Len(originalRows(currentSolution)) :
    clickOriginalRow(index) /\ UNCHANGED clickLog

ClickRoute ==
  \E index \in 1..Len(routeRows(currentSolution)) :
    clickRouteRow(index) /\ UNCHANGED clickLog

\* route metrics: any solution the server can return, its route rows clicked
InitMetrics == \E solution \in Solutions : Displayed(solution)

NextMetrics == ClickRoute

SpecMetrics == InitMetrics /\ [][NextMetrics]_vars

\* selection: clicks in both tables of a displayed solution
InitSelection == \E solution \in UploadedOrSolved : Displayed(solution)

NextSelection == ClickOriginal \/ ClickRoute

SpecSelection == InitSelection /\ [][NextSelection]_vars

\* toggling: the same clicks with the two latest of them logged, on the
\* uploads of the first points of one file and their solved forms
LoggedClickOriginal ==
  \E index \in 1..Len(originalRows(currentSolution)) :
    /\ clickOriginalRow(index)
    /\ clickLog' = Latest2(Append(clickLog,
                       Click("original", index - 1, selectedOriginalPoint)))

LoggedClickRoute ==
  \E index \in 1..Len(routeRows(currentSolution)) :
    /\ clickRouteRow(index)
    /\ clickLog' = Latest2(Append(clickLog,
                       Click("route", index - 1, selectedRoutePoint)))

InitToggle == \E solution \in SampleSolutions : Displayed(solution)

NextToggle == LoggedClickOriginal \/ LoggedClickRoute

SpecToggle == InitToggle /\ [][NextToggle]_vars

\* App with one solution in its history: solutions arrive by history
\* selection, upload and solve, one request of a kind at a time, and the
\* rows of whatever is displayed are clicked
InitApp == Mounted(NoSolution, {}, {1}, {1})

\* the calls of a kind in flight
Calls(kinds) == {call \in inFlight : call.call \in kinds}

SelectSolution ==
  /\ Calls({"select"}) = {}
  /\ \E id \in allSolutions : handleSelectSolution(id)
  /\ UNCHANGED <<history, server>>

SelectSolutionSettled ==
  \E call \in inFlight, response \in Responses :
    selectSolutionSettled(call, response) /\ UNCHANGED <<history, server>>

UploadSuccess ==
  /\ Calls({"upload", "upload.loadSolutions", "solve", "solve.loadSolutions"}) = {}
  /\ handleUploadSuccess(1, inFlight)
  /\ UNCHANGED <<appState, viewState, history, server>>

UploadSolutionSettled ==
  \E call \in inFlight, response \in Responses :
    uploadSolutionSettled(call, response) /\ UNCHANGED <<history, server>>

UploadLoadSolutionsSettled ==
  \E call \in inFlight :
    uploadLoadSolutionsSettled(call, Listed({1})) /\ UNCHANGED <<history, server>>

SolveSettled ==
  \E call \in inFlight, response \in Responses :
    solveSettled(call, response) /\ UNCHANGED <<history, server>>

SolveLoadSolutionsSettled ==
  \E call \in inFlight :
    solveLoadSolutionsSettled(call, Listed({1})) /\ UNCHANGED <<history, server>>

UploadError ==
  /\ handleUploadError("Upload failed")
  /\ UNCHANGED <<inFlight, appState, viewState, history, server>>

NextApp ==
  \/ SelectSolution
  \/ SelectSolutionSettled
  \/ UploadSuccess
  \/ UploadSolutionSettled
  \/ UploadLoadSolutionsSettled
  \/ SolveSettled
  \/ SolveLoadSolutionsSettled
  \/ UploadError
  \/ ClickOriginal
  \/ ClickRoute

SpecApp == InitApp /\ [][NextApp]_vars

\* FileUpload: files of every kind are dropped, read and uploaded
pointsTxt == <<"p", ".", "t", "x", "t">>
pointsCsv == <<"p", ".", "c", "s", "v">>

FileNames ==
  {pointsTxt, pointsCsv, <<"p", ".", "T", "X", "T">>, <<"t", "x", "t">>,
   pointsTxt \o <<".", "x">>, <<>>}

FileSizes == {1, maxFileSize, maxFileSize + 1}

goodLine == <<"1", ",", "1">>
Repeat(line, n) == [i \in 1..n |-> line]

\* three points; two points; three lines of which one is not a point
FewContents ==
  {Repeat(goodLine, 3), Repeat(goodLine, 2),
   <<goodLine, <<"x", ",", "1">>, goodLine>>}

Files ==
  {File(name, size, content) :
     name \in FileNames, size \in FileSizes, content \in FewContents}

DropFile ==
  /\ dropLog.drops < MaxDrops
  /\ \E acceptedFiles \in {<<>>} \cup {<<file>> : file \in Files} :
       useDropzone(acceptedFiles)
  /\ UNCHANGED <<history, server>>

TextSettled ==
  \E call \in inFlight, ok \in BOOLEAN :
    textSettled(call, ok) /\ UNCHANGED <<history, server>>

UploadFileSettled ==
  \E call \in inFlight, response \in UploadResponses :
    uploadFileSettled(call, response) /\ UNCHANGED <<history, server>>

InitUpload == Displayed(NoSolution)

NextUpload == DropFile \/ TextSettled \/ UploadFileSettled

SpecUpload == InitUpload /\ [][NextUpload]_vars

\* validateCoordinateFile: one file is dropped, whose content is lines
\* "1,1" but for at most one line, with or without blank lines around them
ProbeLines == SeqsUpTo(Chars, MaxLen)

Probes(n) ==
  {[Repeat(goodLine, n) EXCEPT ![k] = line] : line \in ProbeLines, k \in 1..n}

Contents ==
  {Repeat(goodLine, n) : n \in {1, 2, maxLines, maxLines + 1}}
    \cup Probes(2) \cup Probes(3)
    \cup {<<<<" ">>, <<>>>> \o Repeat(goodLine, n) \o <<<<>>, <<" ">>>> : n \in 2..3}

InitValidate == Displayed(NoSolution)

DropContent ==
  /\ dropLog.drops = 0
  /\ \E content \in Contents : useDropzone(<<File(pointsTxt, 1, content)>>)
  /\ UNCHANGED <<history, server>>

NextValidate == DropContent \/ TextSettled \/ UploadFileSettled

SpecValidate == InitValidate /\ [][NextValidate]_vars

\* App, FileUpload and a server that stores what is uploaded: files of
\* three points are dropped, the solutions in the history are selected and
\* deleted, and each request is served when it settles, unless the network
\* fails it
Stored(id) == server[id] \in {"UPLOADED", "SOLVED"}

\* GET /solutions/id
getSolution(id) ==
  IF ~Stored(id) THEN Rejected
  ELSE IF server[id] = "SOLVED" THEN Resolved(SolvedSolution(id))
  ELSE Resolved(StoredSolution(id))

\* GET /solutions
getAllSolutions == Listed({id \in Ids : Stored(id)})

\* the ids the server has not given out
FreeIds == {id \in Ids : server[id] = "NONE"}

InitRace == Mounted(NoSolution, {Call("mount.loadSolutions", NoId)}, {}, {})

MountLoadSolutionsServed ==
  \E call \in inFlight, response \in {ListRejected, getAllSolutions} :
    mountLoadSolutionsSettled(call, response) /\ UNCHANGED <<history, server>>

DropPoints ==
  /\ dropLog.drops < MaxDrops /\ Cardinality(inFlight) < MaxCalls
  /\ useDropzone(<<File(pointsTxt, 1, Repeat(goodLine, 3))>>)
  /\ UNCHANGED <<history, server>>

UploadFileServed ==
  \E call \in inFlight :
    /\ \/ uploadFileSettled(call, UploadRejected) /\ UNCHANGED server
       \/ /\ FreeIds # {}
          /\ uploadFileSettled(call, Uploaded(MinOf(FreeIds)))
          /\ server' = [server EXCEPT ![MinOf(FreeIds)] = "UPLOADED"]
    /\ UNCHANGED history

UploadSolutionServed ==
  \E call \in Calls({"upload"}) : \E response \in {Rejected, getSolution(call.id)} :
    /\ uploadSolutionSettled(call, response)
    /\ history' = [settled |-> call.call, id |-> call.id, ok |-> response.ok,
                   fetched |-> IF response.ok THEN history.fetched \cup {call.id}
                               ELSE history.fetched]
    /\ UNCHANGED server

UploadLoadSolutionsServed ==
  \E call \in Calls({"upload.loadSolutions"}),
     response \in {ListRejected, getAllSolutions} :
    /\ uploadLoadSolutionsSettled(call, response)
    /\ history' = [history EXCEPT
                     !.settled = call.call, !.id = call.id, !.ok = response.ok]
    /\ UNCHANGED server

SolveServed ==
  \E call \in Calls({"solve"}) :
    /\ \/ solveSettled(call, Rejected) /\ UNCHANGED server
       \/ /\ Stored(call.id)
          /\ solveSettled(call, Resolved(SolvedSolution(call.id)))
          /\ server' = [server EXCEPT ![call.id] = "SOLVED"]
    /\ UNCHANGED history

SolveLoadSolutionsServed ==
  \E call \in inFlight, response \in {ListRejected, getAllSolutions} :
    solveLoadSolutionsSettled(call, response) /\ UNCHANGED <<history, server>>

SelectListed ==
  /\ Cardinality(inFlight) < MaxCalls
  /\ \E id \in allSolutions :
       /\ Call("select", id) \notin inFlight
       /\ handleSelectSolution(id)
  /\ UNCHANGED <<history, server>>

SelectServed ==
  \E call \in Calls({"select"}) : \E response \in {Rejected, getSolution(call.id)} :
    selectSolutionSettled(call, response) /\ UNCHANGED <<history, server>>

DeleteListed ==
  /\ Cardinality(inFlight) < MaxCalls
  /\ \E id \in allSolutions :
       /\ \A call \in Calls({"delete", "delete.loadSolutions"}) : call.id # id
       /\ handleDeleteSolution(id)
  /\ UNCHANGED <<history, server>>

DeleteServed ==
  \E call \in Calls({"delete"}) :
    /\ \/ deleteSettled(call, FALSE) /\ UNCHANGED server
       \/ /\ Stored(call.id)
          /\ deleteSettled(call, TRUE)
          /\ server' = [server EXCEPT ![call.id] = "DELETED"]
    /\ UNCHANGED history

DeleteLoadSolutionsServed ==
  \E call \in inFlight, response \in {ListRejected, getAllSolutions} :
    deleteLoadSolutionsSettled(call, response) /\ UNCHANGED <<history, server>>

NextRace ==
  \/ MountLoadSolutionsServed
  \/ DropPoints
  \/ TextSettled
  \/ UploadFileServed
  \/ UploadSolutionServed
  \/ UploadLoadSolutionsServed
  \/ SolveServed
  \/ SolveLoadSolutionsServed
  \/ SelectListed
  \/ SelectServed
  \/ DeleteListed
  \/ DeleteServed
  \/ DeleteLoadSolutionsServed

SpecRace == InitRace /\ [][NextRace]_vars

\* rendering: a displayed solution under theme changes, resizes and clicks
InitTheme == \E solution \in SampleSolutions : Displayed(solution)

ObserveTheme == \E theme \in {"light", "dark"} : observeTheme(theme)

NextTheme == ObserveTheme \/ Resize \/ ClickOriginal \/ ClickRoute

SpecTheme == InitTheme /\ [][NextTheme]_vars

-----------------------------------------------------------------------------
(* Properties: coordinate projection *)

Inside(p, width, height) ==
  /\ RLe(R(0), p.x) /\ RLe(p.x, R(width))
  /\ RLe(R(0), p.y) /\ RLe(p.y, R(height))

AllInside(scaled, width, height) ==
  \A i \in 1..Len(scaled) : Inside(scaled[i], width, height)

\* the displayed solution's points and route, as the renderers read them
Points == IF currentSolution.isNull THEN <<>> ELSE currentSolution.originalPoints.items
Route == IF currentSolution.isNull THEN <<>> ELSE currentSolution.route.items

\* the raster surface holds a projection onto a viewport of positive size
RasterProjected ==
  canvas.mounted /\ canvas.hasBounds /\ canvas.width > 0 /\ canvas.height > 0

\* C1. Projection containment: for a non-empty point set and a viewport of
\* positive width and height, every projected point (of originalPoints and
\* of the route) lies within [0,width] x [0,height], in the 800x600 vector
\* view and in the raster view sized by the resize handler.
C1_ProjectionContainment ==
  /\ svg.hasBounds =>
       /\ AllInside(svg.scaledPoints, svgWidth, svgHeight)
       /\ AllInside(svg.scaledRoute, svgWidth, svgHeight)
  /\ RasterProjected =>
       /\ AllInside(canvas.scaledPoints, canvas.width, canvas.height)
       /\ AllInside(canvas.scaledRoute, canvas.width, canvas.height)

\* the uniform scale the specification prescribes, from the points alone
ExpectedScale(points, width, height, padding) ==
  LET xs == {points[i].x : i \in 1..Len(points)}
      ys == {points[i].y : i \in 1..Len(points)}
      dx == MaxOf(xs) - MinOf(xs)
      dy == MaxOf(ys) - MinOf(ys)
      sx == Norm(width - 2 * padding, IF dx = 0 THEN Unit ELSE dx)
      sy == Norm(height - 2 * padding, IF dy = 0 THEN Unit ELSE dy)
  IN  IF RLe(sx, sy) THEN sx ELSE sy

\* differences of projected points are scale*dx and -scale*dy
AffineWithScale(points, scaled, scale) ==
  \A i, j \in 1..Len(points) :
    /\ RSub(scaled[i].x, scaled[j].x) = RMul(scale, R(points[i].x - points[j].x))
    /\ RSub(scaled[i].y, scaled[j].y) = RNeg(RMul(scale, R(points[i].y - points[j].y)))

\* a point with larger problem-space y is drawn higher (smaller viewport y)
LargerYDrawnHigher(points, scaled) ==
  \A i, j \in 1..Len(points) :
    points[i].y > points[j].y => RLt(scaled[i].y, scaled[j].y)

ProjectionFormulaHolds(points, scaled, width, height, padding) ==
  /\ AffineWithScale(points, scaled, ExpectedScale(points, width, height, padding))
  /\ LargerYDrawnHigher(points, scaled)

\* C2. Projection formula: in both views the one scale
\* min((width-2*padding)/rangeX, (height-2*padding)/rangeY) serves both axes:
\* for any two input points the projected horizontal difference is scale*dx,
\* the vertical difference is -scale*dy, and the point with the larger
\* problem-space y is drawn higher.
C2_ProjectionFormula ==
  /\ svg.hasBounds =>
       ProjectionFormulaHolds(Points, svg.scaledPoints, svgWidth, svgHeight, svgPadding)
  /\ RasterProjected =>
       ProjectionFormulaHolds(Points, canvas.scaledPoints,
                              canvas.width, canvas.height, canvasPadding)

\* the projection of the centre of the bounding box
ProjectedCentre(b) ==
  [x |-> RAdd(RMul(Norm(b.minX + b.maxX, 2), b.scale), b.offsetX),
   y |-> RSub(R(b.height), RAdd(RMul(Norm(b.minY + b.maxY, 2), b.scale), b.offsetY))]

Centred(b) == ProjectedCentre(b) = [x |-> Norm(b.width, 2), y |-> Norm(b.height, 2)]

\* C3. Centring: for every non-empty point set, degenerate ones (all points
\* on one x or one y) included, the centre of the bounding box is projected
\* to the centre of the viewport (width/2, height/2).
C3_Centring ==
  /\ svg.hasBounds => Centred(svg.bounds)
  /\ RasterProjected => Centred(canvas.bounds)

\* what does hold: the affine formula in every state, and containment,
\* orientation and centring away from the two defects (a canvas narrower or
\* lower than twice the padding; a zero range replaced by 1)
Degenerate(b) == b.minX = b.maxX \/ b.minY = b.maxY

ProjectionSound ==
  /\ svg.hasBounds =>
       /\ AffineWithScale(Points, svg.scaledPoints, svg.bounds.scale)
       /\ svg.bounds.scale =
            ExpectedScale(Points, svgWidth, svgHeight, svgPadding)
       /\ AllInside(svg.scaledPoints, svgWidth, svgHeight)
       /\ LargerYDrawnHigher(Points, svg.scaledPoints)
       /\ ~Degenerate(svg.bounds) => Centred(svg.bounds)
  /\ RasterProjected =>
       /\ AffineWithScale(Points, canvas.scaledPoints, canvas.bounds.scale)
       /\ (canvas.width >= 2 * canvasPadding /\ canvas.height >= 2 * canvasPadding)
            => AllInside(canvas.scaledPoints, canvas.width, canvas.height)
       /\ (canvas.width > 2 * canvasPadding /\ canvas.height > 2 * canvasPadding)
            => LargerYDrawnHigher(Points, canvas.scaledPoints)
       /\ ~Degenerate(canvas.bounds) => Centred(canvas.bounds)

-----------------------------------------------------------------------------
(* Properties: route metrics *)

\* d is the Euclidean distance between p and q, rounded down to the
\* coordinate resolution
IsDistance(d, p, q) ==
  LET squared == (q.x - p.x) * (q.x - p.x) + (q.y - p.y) * (q.y - p.y)
  IN  d >= 0 /\ d * d <= squared /\ (d + 1) * (d + 1) > squared

\* the successor of position i on a closed tour of n points
NextOnTour(i, n) == IF i = n THEN 1 ELSE i + 1

RouteRows == routeRows(currentSolution)

\* C4. Segment distances: for a route of at least two points the distance
\* sequence has route.length elements, element i is the Euclidean distance
\* between route[i] and route[(i+1) mod route.length] (the last one closes the
\* tour), and the route table and the vector view compute the same sequence.
C4_SegmentDistances ==
  LET n == Len(Route)
      table == getRouteDistances(Route)
      rows == RouteRows
  IN  n >= 2 =>
        /\ Len(table) = n
        /\ \A i \in 1..n : IsDistance(table[i], Route[i], Route[NextOnTour(i, n)])
        /\ Len(rows) = n
        /\ \A i \in 1..n : rows[i].distance = table[i]
        /\ distances(Route) = table
        /\ svg.hasBounds => svg.routeDistances = table

\* a 3-4-5 triangle is displayed: segments 3, 4 and, closing the tour, 5
C4_Witness ==
  /\ Len(RouteRows) = 3
  /\ RouteRows[1].distance = 3 * Unit
  /\ RouteRows[2].distance = 4 * Unit
  /\ RouteRows[3].distance = 5 * Unit
  /\ svg.hasBounds /\ svg.routeDistances = <<3 * Unit, 4 * Unit, 5 * Unit>>

\* C5. Degenerate routes: in the route table's computation and in the vector
\* view's, a route of length 1 yields exactly one segment of distance zero
\* and a route of length 0 yields an empty result.
C5_DegenerateRoutes ==
  (~currentSolution.isNull /\ currentSolution.route.isArray) =>
    /\ Len(Route) = 1 =>
         getRouteDistances(Route) = <<0>> /\ distances(Route) = <<0>>
    /\ Len(Route) = 0 =>
         getRouteDistances(Route) = <<>> /\ distances(Route) = <<>>

RECURSIVE SumFrom(_, _)
SumFrom(s, i) == IF i > Len(s) THEN 0 ELSE s[i] + SumFrom(s, i + 1)

\* C6. Cumulative distances: the cumulative distance of route-table row i is
\* the sum of the segment distances of rows 0..i, the cumulative distances
\* never decrease, and the last one is the sum of all segment distances of
\* the closed tour.
C6_CumulativeDistances ==
  LET rows == RouteRows
      n == Len(rows)
      segments == [i \in 1..n |-> rows[i].distance]
      total == SumFrom(getRouteDistances(Route), 1)
  IN  /\ \A i \in 1..n :
           rows[i].cumulativeDistance + SumFrom(segments, i + 1) = SumFrom(segments, 1)
      /\ \A i \in 2..n : rows[i - 1].cumulativeDistance <= rows[i].cumulativeDistance
      /\ n > 0 => rows[n].cumulativeDistance = total

\* the 3-4-5 triangle: cumulative distances 3, 7, 12, shown as 3.00, 7.00, 12.00
C6_Witness ==
  /\ Len(RouteRows) = 3
  /\ [i \in 1..3 |-> RouteRows[i].cumulativeDistance] = <<3 * Unit, 7 * Unit, 12 * Unit>>
  /\ [i \in 1..3 |-> RouteRows[i].totalCell] = <<Num(300), Num(700), Num(1200)>>

SegmentLabels == svgSegmentLabels(svg, showRoute)

\* C7. Distances are viewport-independent: whatever size the viewport has
\* been resized to, every segment and cumulative distance of the route table
\* and every segment label of the vector view is the distance between the
\* route's problem-space coordinates.
C7_DistancesViewportIndependent ==
  LET n == Len(Route)
      rows == RouteRows
      labels == SegmentLabels
  IN  /\ \A i \in 1..Len(rows) :
           /\ IsDistance(rows[i].distance, Route[i], Route[NextOnTour(i, n)])
           /\ rows[i].segmentCell = formatDistance(rows[i].distance)
           /\ \E before \in {IF i = 1 THEN 0 ELSE rows[i - 1].cumulativeDistance} :
                /\ rows[i].cumulativeDistance = before + rows[i].distance
                /\ rows[i].totalCell = formatDistance(before + rows[i].distance)
      /\ \A i \in 1..Len(labels) :
           /\ IsDistance(svg.routeDistances[i], Route[i], Route[NextOnTour(i, n)])
           /\ labels[i].distance =
                IF svg.routeDistances[i] = 0 THEN 0 ELSE toFixed(svg.routeDistances[i], 1)

\* the raster view has been resized away from its initial size while the
\* triangle's closing segment is labelled 5.0 and the table totals 12.00
C7_Witness ==
  /\ dimensions.width # R(initialWidth)
  /\ canvas.mounted /\ canvas.width < initialWidth
  /\ Len(SegmentLabels) = 3
  /\ \E i \in 1..3 : SegmentLabels[i].distance = 50
  /\ RouteRows[3].totalCell = Num(1200)

\* the original points within the tolerance of a point, on both axes
Within(point) ==
  {k \in 1..Len(Points) :
     /\ Points[k].x - point.x < tolerance /\ point.x - Points[k].x < tolerance
     /\ Points[k].y - point.y < tolerance /\ point.y - Points[k].y < tolerance}

\* C8. Index resolution: the 'Original #' of a route row is the first
\* original point (in upload order) whose x and y each differ from the route
\* point's by less than 0.001; when no original point matches, no index is
\* reported.
C8_IndexResolution ==
  (~currentSolution.isNull /\ currentSolution.originalPoints.isArray) =>
    LET rows == RouteRows
    IN  \A i \in 1..Len(rows) :
          IF Within(Route[i]) = {}
          THEN rows[i].originalIndex.na
          ELSE rows[i].originalIndex = Num(MinOf(Within(Route[i])))

IsReordering(route, points) ==
  /\ Len(route) = Len(points)
  /\ \E f \in Permutations(1..Len(points)) :
       \A i \in 1..Len(points) : route[i] = points[f[i]]

\* every two points differ by more than the tolerance on some axis
PairwiseDistinct(points) ==
  \A i, j \in 1..Len(points) :
    i # j => \/ Abs(points[i].x - points[j].x) > tolerance
             \/ Abs(points[i].y - points[j].y) > tolerance

SymmetryCase ==
  /\ ~currentSolution.isNull
  /\ currentSolution.originalPoints.isArray /\ currentSolution.route.isArray
  /\ PairwiseDistinct(Points)
  /\ IsReordering(Route, Points)

\* C9. Selection symmetry: when route is a permutation of originalPoints and
\* the points are pairwise distinct by more than the tolerance, every route
\* row resolves to the original point it is, and every original index is the
\* resolution of exactly one route row (the resolution is a bijection, so
\* going from an original index to its route row and back returns it).
C9_SelectionSymmetry ==
  SymmetryCase =>
    LET n == Len(Points)
        rows == RouteRows
        resolved == [r \in 1..n |-> rows[r].originalIndex.value]
    IN  /\ \A r \in 1..n : resolved[r] \in 1..n /\ Points[resolved[r]] = Route[r]
        /\ \A i \in 1..n : Cardinality({r \in 1..n : resolved[r] = i}) = 1

\* three points far apart, visited in an order other than the upload order
C9_Witness ==
  /\ SymmetryCase
  /\ Len(Points) = 3
  /\ Route # Points
  /\ RouteRows[1].originalIndex = Num(3)

-----------------------------------------------------------------------------
(* Properties: selection *)

\* C10. Selection exclusivity: in every state reached by table clicks at
\* most one of selectedOriginalPoint and selectedRoutePoint is non-null.
C10_SelectionExclusive ==
  ~(selectedOriginalPoint # Null /\ selectedRoutePoint # Null)

\* the selection a table click acts on
Selection(table) ==
  IF table = "original" THEN selectedOriginalPoint ELSE selectedRoutePoint

LastClick == clickLog[Len(clickLog)]

\* the two latest clicks hit the same row of the same table
SameRowTwice ==
  /\ Len(clickLog) = 2
  /\ clickLog[1].table = clickLog[2].table
  /\ clickLog[1].index = clickLog[2].index

\* a click on the selected row deselects, a click on another row selects it
ClickToggles ==
  Len(clickLog) > 0 =>
    Selection(LastClick.table) =
      IF LastClick.before = LastClick.index THEN Null ELSE LastClick.index

\* C11 as stated. Selection toggle: clicking the row of the selected index
\* sets that table's selection to none, clicking any other row sets it to
\* that row's index, and two consecutive clicks on one row that was not
\* selected restore the selection that held before them.
C11_ToggleRestores ==
  /\ ClickToggles
  /\ (SameRowTwice /\ clickLog[1].before # clickLog[1].index) =>
       Selection(LastClick.table) = clickLog[1].before

\* C11 as amended. Selection toggle: clicking the row of the selected index
\* sets that table's selection to none and clicking any other row sets it to
\* that row's index; two consecutive clicks on one row restore the selection
\* that held before them when that row or no row was selected, and leave no
\* row selected when a different row was.
C11_SelectionToggle ==
  /\ ClickToggles
  /\ SameRowTwice =>
       Selection(LastClick.table) =
         IF clickLog[1].before \in {Null, clickLog[1].index}
         THEN clickLog[1].before ELSE Null

\* row 0 was selected, then row 1 of the same table was clicked twice
C11_Witness ==
  /\ SameRowTwice
  /\ clickLog[1] = Click("original", 1, 0)
  /\ clickLog[2] = Click("original", 1, 1)
  /\ selectedOriginalPoint = Null

-----------------------------------------------------------------------------
(* Properties: scenes *)

\* what the vector view shows for the current state, with the given
\* selections in place of the current ones
SvgSceneWith(selectedOriginal, selectedRoute) ==
  svgScene(currentSolution, svg, showRoute, selectedOriginal, selectedRoute, darkMode)

SvgScene == SvgSceneWith(selectedOriginalPoint, selectedRoutePoint)

\* what the raster view has drawn for the current state
CanvasScene == drawSequence(currentSolution, canvas, darkMode)

\* the selection as it counts for the displayed solution: none when the
\* index is outside [0, pointCount)
InRange(selected) ==
  IF selected \in 0..(currentSolution.pointCount - 1) THEN selected ELSE Null

\* originalPoints is missing, or pointCount is not its length
Malformed(solution) ==
  \/ ~solution.originalPoints.isArray
  \/ solution.pointCount # Len(solution.originalPoints.items)

\* C12. Selection out of range: whenever a solution is displayed, a
\* selectedOriginalPoint or selectedRoutePoint outside [0, pointCount) gives
\* exactly the scene that no selection gives (no highlight ring, no label).
C12_SelectionOutOfRange ==
  ~currentSolution.isNull =>
    SvgScene = SvgSceneWith(InRange(selectedOriginalPoint), InRange(selectedRoutePoint))

\* what does hold: for a solution whose pointCount is the length of its
\* originalPoints, a selection outside the range draws nothing
OutOfRangeSound ==
  (~currentSolution.isNull /\ ~Malformed(currentSolution)) =>
    SvgScene = SvgSceneWith(InRange(selectedOriginalPoint), InRange(selectedRoutePoint))

\* a selection made on three points is still held while one point is shown
OutOfRangeReached ==
  /\ ~currentSolution.isNull /\ ~Malformed(currentSolution)
  /\ currentSolution.pointCount = 1
  /\ selectedOriginalPoint = 2 /\ selectedRoutePoint = 1

\* what the raster view shows for the current state
CanvasView == canvasView(currentSolution, canvas, darkMode)

\* C13. Empty geometry: when the displayed solution has zero original
\* points, no projection is computed and both views show the empty-state
\* placeholder.
C13_EmptyGeometry ==
  (~currentSolution.isNull /\ currentSolution.originalPoints.isArray
     /\ Len(Points) = 0) =>
    /\ ~svg.hasBounds
    /\ ~canvas.hasBounds
    /\ SvgScene = svgPlaceholder
    /\ CanvasView = canvasPlaceholder

\* what does hold: without points neither view projects and neither draws
\* a route, a point or a highlight
EmptyGeometrySound ==
  (~currentSolution.isNull /\ Len(Points) = 0) =>
    /\ ~svg.hasBounds
    /\ ~canvas.hasBounds
    /\ \A i \in 1..Len(SvgScene) : SvgScene[i].layer \in {"grid", "caption"}
    /\ \A i \in 1..Len(CanvasView) : CanvasView[i].layer = "background"

\* the layers of a scene, in the order they are emitted
Layers(scene) == [i \in 1..Len(scene) |-> scene[i].layer]

\* a pass that ran to its end: it began with the background and ended with
\* the axis captions, the grid before them
CompletePass(scene) ==
  /\ Len(scene) >= 4
  /\ scene[1].layer = "background"
  /\ scene[Len(scene) - 2].layer = "grid"
  /\ scene[Len(scene) - 1].layer = "caption"
  /\ scene[Len(scene)].layer = "caption"

\* C14. Render atomicity: every raster render pass either issues its
\* complete draw sequence (background, route, points, grid, axis captions) or
\* issues no drawing command at all.
C14_RenderAtomicity ==
  canvas.mounted => (CanvasScene = <<>> \/ CompletePass(CanvasScene))

\* the place of a scene element in the prescribed back-to-front order
LayerRank(layer) ==
  CASE layer \in {"background", "grid"} -> 1
    [] layer = "route" -> 2
    [] layer = "point" -> 3
    [] layer = "highlight" -> 4
    [] layer = "caption" -> 5
    [] OTHER -> 0

BackToFront(scene) ==
  \A i \in 1..(Len(scene) - 1) :
    LayerRank(scene[i].layer) <= LayerRank(scene[i + 1].layer)

\* C16. Draw order: in every render pass of either view the elements are
\* emitted in the order background grid, route segments with their labels,
\* point markers, selection highlight rings, axis captions.
C16_DrawOrder ==
  ~currentSolution.isNull =>
    /\ BackToFront(SvgScene)
    /\ canvas.mounted => BackToFront(CanvasScene)

\* the shapes of some layers of a scene, by what is drawn, for which index,
\* with which number
Drawn(scene, layers) ==
  {<<scene[i].kind, scene[i].index, scene[i].value>> :
     i \in {j \in 1..Len(scene) : scene[j].layer \in layers}}

\* where the segments of a scene start
SegmentStarts(scene) ==
  {<<scene[i].index, scene[i].at>> :
     i \in {j \in 1..Len(scene) : scene[j].kind = "line"}}

\* C17. Backend substitutability: when the raster view's surface has the
\* vector view's viewport, both views show the same solution with the same
\* projected point positions, the same route segments with order and
\* segment-distance labels, and the same selection highlights.
C17_BackendSubstitutable ==
  (RasterProjected /\ svg.hasBounds
     /\ canvas.width = svg.bounds.width /\ canvas.height = svg.bounds.height) =>
    /\ canvas.scaledPoints = svg.scaledPoints
    /\ SegmentStarts(CanvasScene) = SegmentStarts(SvgScene)
    /\ Drawn(CanvasScene, {"route"}) \ {d \in Drawn(CanvasScene, {"route"}) : d[1] = "arrow"}
         = Drawn(SvgScene, {"route"})
    /\ Drawn(CanvasScene, {"highlight"}) = Drawn(SvgScene, {"highlight"})

\* the inverse of scalePoint under the returned scale and offsets
unscalePoint(scaled, b) ==
  [x |-> RDiv(RSub(scaled.x, b.offsetX), b.scale),
   y |-> RDiv(RSub(RSub(R(b.height), scaled.y), b.offsetY), b.scale)]

Invertible(points, scaled, b) ==
  /\ \A i, j \in 1..Len(points) : points[i] # points[j] => scaled[i] # scaled[j]
  /\ b.scale # R(0)
  /\ \A i \in 1..Len(points) :
       unscalePoint(scaled[i], b) = [x |-> R(points[i].x), y |-> R(points[i].y)]

\* C20. Invertibility: for every non-empty point set and every viewport the
\* views produce, points with different coordinates are projected to
\* different positions, and the inverse of (scale, offsetX, offsetY) applied
\* to a projected point returns the original point.
C20_Invertibility ==
  /\ svg.hasBounds => Invertible(Points, svg.scaledPoints, svg.bounds)
  /\ RasterProjected => Invertible(Points, canvas.scaledPoints, canvas.bounds)

\* what does hold: the projection is invertible whenever its scale is not 0
InvertibleUnlessCollapsed ==
  /\ svg.hasBounds => Invertible(Points, svg.scaledPoints, svg.bounds)
  /\ (RasterProjected /\ canvas.bounds.scale # R(0)) =>
       Invertible(Points, canvas.scaledPoints, canvas.bounds)

-----------------------------------------------------------------------------
(* Properties: App and rendering under events *)

\* C15. Malformed solution: whenever a solution becomes current whose
\* originalPoints is missing or whose pointCount differs from
\* originalPoints.length, by history selection, upload or solve, its points
\* are treated as an empty sequence (nothing is projected) and the error
\* state is set.
C15_MalformedSolution ==
  [][("solution" \in changed' /\ ~currentSolution'.isNull
        /\ Malformed(currentSolution'))
       => (~error'.isNull /\ ~svg'.hasBounds /\ ~canvas'.hasBounds)]_vars

\* what does hold: history selection never makes a solution without an
\* originalPoints array current, and whenever such a solution is current
\* (by upload or solve) neither view projects anything
MalformedSound ==
  (~currentSolution.isNull /\ ~currentSolution.originalPoints.isArray) =>
    (~svg.hasBounds /\ ~canvas.hasBounds)

\* C18. Render purity: two consecutive render passes with identical
\* solution, projected points, projected route, distances, selection and
\* viewport show identical scenes, colours included: nothing but the
\* explicitly passed inputs decides the output.
C18_RenderPurity ==
  [][UNCHANGED <<currentSolution, svg, canvas, dimensions,
                 selectedOriginalPoint, selectedRoutePoint>>
       => (SvgScene' = SvgScene /\ CanvasView' = CanvasView)]_vars

\* the computation with these dependencies ran again after the last event
Recomputes(deps) == changed \cap deps # {}

\* C19. Memoisation: after every event, the vector view's memo and the
\* raster view's render effect (projected points, projected route, segment
\* distances) have run again exactly when the event changed the solution
\* or, for the raster view whose viewport can change, the viewport
\* dimensions; a selection change alone re-runs neither.
C19_Memoisation ==
  /\ Recomputes(useMemoDeps) <=> "solution" \in changed
  /\ Recomputes(useEffectDeps) <=> changed \cap {"solution", "dimensions"} # {}

\* what does hold: a selection change re-runs neither projection, and the
\* vector view's memo runs again exactly when the solution changed
MemoisationSound ==
  /\ changed \subseteq {"selectedOriginalPoint", "selectedRoutePoint"} =>
       (~Recomputes(useMemoDeps) /\ ~Recomputes(useEffectDeps))
  /\ Recomputes(useMemoDeps) <=> "solution" \in changed

-----------------------------------------------------------------------------
(* Properties: the solution record *)

\* C21. Read-only solution: no render pass (after a theme change or a
\* resize), distance computation, index resolution or selection event
\* modifies the solution record it is given: originalPoints, route,
\* pointCount and every other field are the same after the step as before.
C21_ReadOnlySolution ==
  [][currentSolution' = currentSolution]_vars

\* both tables have a selected row of a solved solution, the theme has
\* changed and the raster view has been resized
C21_Witness ==
  /\ ~currentSolution.isNull /\ currentSolution.route.isArray
  /\ Len(currentSolution.route.items) >= 2
  /\ selectedOriginalPoint # Null /\ selectedRoutePoint # Null
  /\ darkMode
  /\ dimensions.width # R(initialWidth)

-----------------------------------------------------------------------------
(* Properties: the START marker *)

\* the points a scene marks START
StartOfView(scene) ==
  {Points[scene[i].index + 1] : i \in {j \in 1..Len(scene) : scene[j].kind = "START"}}

\* the points the rows of the route table mark START
StartOfTable ==
  {Route[j] : j \in {k \in 1..Len(RouteRows) : RouteRows[k].start}}

\* the displayed solution is solved: its route visits its points
Solved ==
  /\ ~currentSolution.isNull
  /\ currentSolution.originalPoints.isArray /\ currentSolution.route.isArray
  /\ Len(Points) >= 1 /\ Len(Route) = Len(Points)

\* C30. START marker consistency: for every solved solution, the point
\* each geometric view draws as the origin (green marker, START label) is
\* the first point of the route, the point the route table marks START.
C30_StartMarkerConsistency ==
  Solved =>
    /\ StartOfView(SvgScene) = StartOfTable
    /\ StartOfView(CanvasScene) = StartOfTable

\* what does hold: each view marks the first of originalPoints and the
\* table marks the first point of the route
StartMarkerSound ==
  Solved =>
    /\ StartOfView(SvgScene) = {Points[1]}
    /\ StartOfView(CanvasScene) = {Points[1]}
    /\ StartOfTable = {Route[1]}

-----------------------------------------------------------------------------
(* Properties: selection across solution changes *)

\* C27. Selection stays in range across solution changes: after any
\* sequence of uploads, history selections and table clicks, a non-null
\* selectedOriginalPoint is an index into the displayed solution's
\* originalPoints and a non-null selectedRoutePoint is an index into its
\* route; no selection is held while no solution is displayed.
C27_SelectionInRange ==
  /\ selectedOriginalPoint # Null =>
       /\ ~currentSolution.isNull /\ currentSolution.originalPoints.isArray
       /\ selectedOriginalPoint \in 0..(Len(Points) - 1)
  /\ selectedRoutePoint # Null =>
       /\ ~currentSolution.isNull /\ currentSolution.route.isArray
       /\ selectedRoutePoint \in 0..(Len(Route) - 1)

\* what does hold: a click selects a row of the table it was made in
ClickInRange ==
  /\ "selectedOriginalPoint" \in changed =>
       selectedOriginalPoint \in {Null} \cup 0..(Len(Points) - 1)
  /\ "selectedRoutePoint" \in changed =>
       selectedRoutePoint \in {Null} \cup 0..(Len(Route) - 1)

-----------------------------------------------------------------------------
(* Properties: the content of a coordinate file *)

\* s is a decimal numeral: an optional sign, digits with at most one point
\* among them, and nothing else
IsNumeric(s) ==
  LET u == IF s # <<>> /\ s[1] = "-" THEN Tail(s) ELSE s
  IN  /\ \A i \in 1..Len(u) : u[i] \in Digits \cup {"."}
      /\ Cardinality({i \in 1..Len(u) : u[i] = "."}) <= 1
      /\ \E i \in 1..Len(u) : u[i] \in Digits

\* the line is two numerals with a comma between them, spaces aside
IsPointLine(line) ==
  LET commas == {i \in 1..Len(line) : line[i] = ","}
  IN  /\ Cardinality(commas) = 1
      /\ \A k \in commas :
           /\ IsNumeric(trim(SubSeq(line, 1, k - 1)))
           /\ IsNumeric(trim(SubSeq(line, k + 1, Len(line))))

\* the trimmed content has 3 to 1000 lines and each of them is a point
WellFormed(content) ==
  LET lines == trimSplitLines(content)
  IN  /\ Len(lines) >= 3 /\ Len(lines) <= 1000
      /\ \A i \in 1..Len(lines) : IsPointLine(lines[i])

\* C22. Coordinate file limits: validateCoordinateFile returns isValid =
\* true if and only if the trimmed content has between 3 and 1000 lines and
\* every line consists of exactly two comma-separated numeric values; in
\* every other case it returns isValid = false with an error message.
C22_CoordinateFileLimits ==
  validation # Unvalidated =>
    /\ validation.isValid <=> WellFormed(dropLog.file.content)
    /\ ~validation.isValid => validation.error # ""

\* what does hold: every well-formed content is valid, no content of fewer
\* than 3 or more than 1000 lines is, and an invalid one has a message
CoordinateFileLimitsSound ==
  validation # Unvalidated =>
    /\ WellFormed(dropLog.file.content) => validation.isValid
    /\ validation.isValid =>
         Len(trimSplitLines(dropLog.file.content)) \in minLines..maxLines
    /\ ~validation.isValid => validation.error # ""

-----------------------------------------------------------------------------
(* Properties: FileUpload *)

\* the drops onDrop has not finished handling
InProgress == Calls({"file.text", "uploadFile"})

\* the step handles a drop that brings no file, or a file whose name does
\* not end in .txt or .csv, or one larger than 10MB
RejectedOnDrop ==
  /\ dropLog'.drops = dropLog.drops + 1
  /\ \/ dropLog'.empty
     \/ LET name == dropLog'.file.name
            extension == SubSeq(name, Len(name) - 3, Len(name))
        IN  Len(name) < 4 \/ extension \notin {txt, csv}
     \/ dropLog'.file.size > 10 * 1024 * 1024

\* the step has read a file whose content fails validation
RejectedOnContent ==
  \E call \in inFlight :
    /\ call.call = "file.text" /\ call \notin inFlight'
    /\ validation' # validation
    /\ ~validateCoordinateFile(call.file.content).isValid

\* C23. Rejected files are never uploaded: for a drop with no accepted
\* file, a file whose name does not end in .txt or .csv, a file larger than
\* 10MB, or a file whose content fails validation, no upload request is
\* issued and onUploadError is called, once and with a message, instead of
\* onUploadSuccess.
C23_RejectedNeverUploaded ==
  [][(RejectedOnDrop \/ RejectedOnContent) =>
       /\ dropLog'.uploadFile = dropLog.uploadFile
       /\ Calls({"uploadFile"})' \subseteq Calls({"uploadFile"})
       /\ InProgress' \subseteq InProgress
       /\ dropLog'.onUploadError = dropLog.onUploadError + 1
       /\ dropLog'.onUploadSuccess = dropLog.onUploadSuccess
       /\ ~error'.isNull /\ error'.message # ""]_vars

\* a file of 10MB has been read and rejected for its content after a file
\* of more than 10MB was rejected unread, and nothing was uploaded
C23_Witness ==
  /\ dropLog.drops = 2 /\ dropLog.onUploadError = 2
  /\ dropLog.file.size = maxFileSize
  /\ validation # Unvalidated /\ ~validation.isValid
  /\ error = Error(validation.error)
  /\ dropLog.uploadFile = 0 /\ InProgress = {}

\* C28. Upload lifecycle: every handled drop calls exactly one of
\* onUploadSuccess and onUploadError, once, when it ends (the calls made so
\* far are as many as the drops that have ended), and then isUploading is
\* false; isUploading is true exactly while a drop is being handled, and no
\* second drop is handled meanwhile, so at most one upload request is in
\* flight.
C28_UploadLifecycle ==
  /\ dropLog.onUploadError + dropLog.onUploadSuccess + Cardinality(InProgress)
       = dropLog.drops
  /\ isUploading <=> InProgress # {}
  /\ Cardinality(InProgress) <= 1
  /\ dropLog.uploadFile <= dropLog.onUploadSuccess + dropLog.onUploadError
                            + Cardinality(Calls({"uploadFile"}))

\* one drop has ended with onUploadError and one with onUploadSuccess
C28_Witness ==
  /\ dropLog.drops = 2
  /\ dropLog.onUploadError = 1 /\ dropLog.onUploadSuccess = 1
  /\ dropLog.uploadFile >= 1
  /\ ~isUploading /\ InProgress = {}

-----------------------------------------------------------------------------
(* Properties: App under overlapping requests *)

\* the call settles in this step
Settles(call) == call \in inFlight /\ call \notin inFlight'

\* the call is issued in this step
Issued(call) == call \notin inFlight /\ call \in inFlight'

\* C24. Stale solve response: when the solve request for a solution
\* settles while a different solution is displayed (one selected from the
\* history or uploaded after it), the displayed solution stays as it is.
C24_StaleSolveResponse ==
  [][\A call \in Calls({"solve"}) :
       (Settles(call) /\ currentId \notin {NoId, call.id})
         => currentSolution' = currentSolution]_vars

\* C25. Deleted solution is not displayed: when handleDeleteSolution(id)
\* completes after the server has deleted the solution, currentSolution
\* does not have that id, whatever was selected, uploaded or solved while
\* the delete request was in flight.
C25_DeletedNotDisplayed ==
  [][\A call \in Calls({"delete.loadSolutions"}) :
       Settles(call) => currentId' # call.id]_vars

\* what does hold: a solution that was displayed when its delete button
\* was clicked gives way to no solution when the delete request is served
DeletedNotDisplayedSound ==
  [][\A call \in Calls({"delete"}) :
       (Settles(call) /\ Issued(Call("delete.loadSolutions", call.id))
          /\ call.current = call.id)
         => currentSolution'.isNull]_vars

\* the runs of handleSolve that have not finished
Solving == Calls({"solve", "solve.loadSolutions"})

\* C26. isSolving tracks in-flight solves: isSolving is true while at
\* least one solve request is in flight, also when two uploads have
\* started overlapping auto-solves, and false when no handleSolve is
\* running.
C26_IsSolvingTracksSolves ==
  /\ Calls({"solve"}) # {} => isSolving
  /\ Solving = {} => ~isSolving

\* what does hold: isSolving is true only while a handleSolve is running
IsSolvingSound == isSolving => Solving # {}

\* the solve request for id is issued by the step in which the reload of
\* the list that follows the upload of id finishes, after the uploaded
\* solution was fetched and set
SolveAfterReload ==
  \A id \in Ids :
    Issued(Call("solve", id)) =>
      /\ Settles(Call("upload.loadSolutions", id))
      /\ id \in history.fetched

\* the step settles this await of handleUploadSuccess with a failure
Fails(call) ==
  /\ Settles(call)
  /\ history'.settled = call.call /\ history'.id = call.id /\ ~history'.ok

\* C29. Auto-solve ordering: after a successful upload the solve request
\* for the uploaded id is issued only after the uploaded solution has been
\* fetched and set as currentSolution and the reload of the solutions list
\* has finished; if the fetch or the reload fails, no solve request is
\* issued and the error is set.
C29_AutoSolveOrdering ==
  [][/\ SolveAfterReload
     /\ \A call \in Calls({"upload", "upload.loadSolutions"}) :
          Fails(call) =>
            (~Issued(Call("solve", call.id)) /\ ~error'.isNull)]_vars

\* what does hold: the ordering, and no solve request and an error when the
\* fetch fails
AutoSolveOrderingSound ==
  [][/\ SolveAfterReload
     /\ \A call \in Calls({"upload"}) :
          Fails(call) =>
            (~Issued(Call("solve", call.id)) /\ ~error'.isNull)]_vars

====
